---- MODULE Spec2Model ----
(***************************************************************************)
(* Model of the Reddit fact-check pipeline (final.py: chunker, batch       *)
(* assembler, analysis caller, orchestrator) and of the Devanagari         *)
(* keyword-scoring language detector (main/lang_indicators.py).            *)
(*                                                                         *)
(* Three specifications share the module:                                  *)
(*   Spec      - repeated runs of run_full_analysis_pipeline over the      *)
(*               chunks/, batches/ and analysis_results/ directories;      *)
(*   SpecBatch - one call of create_batches on an arbitrary chunk          *)
(*               directory with an arbitrary budget;                       *)
(*   SpecLang  - one call of detect_devanagari_language on a text.         *)
(***************************************************************************)
EXTENDS Integers, Sequences, FiniteSets

VARIABLES
    pc,                        \* position of the running call
    chunksDir,                 \* chunks/   : [exists, files]
    batchesDir,                \* batches/  : [exists, files]
    reportFile,                \* analysis_results/combined_analysis_report.json: <<>> or <<file>>
    max_batch_chars,           \* create_batches parameter
    chunk_files,               \* create_batches: sorted listing
    fileIdx,                   \* create_batches: position of the for loop
    current_batch_content,     \* create_batches local
    current_batch_size_chars,  \* create_batches local
    batch_count,               \* create_batches local
    readChunks,                \* history: chunks whose read succeeded, in read order
    batch_files,               \* analyze_batches: sorted listing
    batchIdx,                  \* analyze_batches: position of the for loop
    all_analysis_results,      \* analyze_batches local
    calls,                     \* history: call_local_analysis invocations <<batch name, outcome>>
    stages,                    \* history: stages invoked by the current pipeline run
    chunk_count,               \* run_full_analysis_pipeline local
    result,                    \* what run_full_analysis_pipeline gave its caller
    text,                      \* detect_devanagari_language argument
    lang_scores,               \* detect_devanagari_language local
    detected                   \* detect_devanagari_language return value

vars == <<pc, chunksDir, batchesDir, reportFile, max_batch_chars, chunk_files,
          fileIdx, current_batch_content, current_batch_size_chars, batch_count,
          readChunks, batch_files, batchIdx, all_analysis_results, calls,
          stages, chunk_count, result, text, lang_scores, detected>>

diskVars  == <<chunksDir, batchesDir, reportFile>>
batchVars == <<max_batch_chars, chunk_files, fileIdx, current_batch_content,
               current_batch_size_chars, batch_count, readChunks>>
analyzeVars == <<batch_files, batchIdx, all_analysis_results, calls>>
langVars  == <<text, lang_scores, detected>>

(***************************************************************************)
(* Bounds of the model.                                                    *)
(***************************************************************************)
MaxFiles    == 3    \* chunk files in the directory handed to create_batches
MaxChunkLen == 3    \* page_content length of a chunk (SpecBatch)
MaxBudget   == 2    \* max_batch_chars (SpecBatch)
MaxPipeChunks == 2  \* chunks the splitter returns in one pipeline run
MaxClaims   == 1    \* claim objects in one model answer
MaxTextLen  == 4    \* code points of a text

(***************************************************************************)
(* Generic helpers.                                                        *)
(***************************************************************************)
RECURSIVE SumLen(_)
SumLen(s) == IF s = <<>> THEN 0 ELSE Head(s).len + SumLen(Tail(s))

RECURSIVE Flatten(_)
Flatten(ss) == IF ss = <<>> THEN <<>> ELSE Head(ss) \o Flatten(Tail(ss))

SeqsUpTo(S, n) == UNION {[1..k -> S] : k \in 0..n}

Min(S) == CHOOSE x \in S : \A y \in S : x <= y

(***************************************************************************)
(*                      main/lang_indicators.py                            *)
(***************************************************************************)

\* self.devanagari_indicators, in dict order; words are sequences of code points
devanagari_indicators ==
    <<
      [lang |-> "hi", indicators |-> <<
           [word |-> <<2361, 2376>>, weight |-> 3],
           [word |-> <<2361, 2376, 2306>>, weight |-> 3],
           [word |-> <<2361, 2379>>, weight |-> 2],
           [word |-> <<2325, 2381, 2351, 2366>>, weight |-> 2],
           [word |-> <<2351, 2361>>, weight |-> 2],
           [word |-> <<2357, 2361>>, weight |-> 2],
           [word |-> <<2350, 2376, 2306>>, weight |-> 2],
           [word |-> <<2340, 2369, 2350>>, weight |-> 2],
           [word |-> <<2325, 2379>>, weight |-> 1],
           [word |-> <<2360, 2375>>, weight |-> 1],
           [word |-> <<2344, 2375>>, weight |-> 1],
           [word |-> <<2346, 2352>>, weight |-> 1],
           [word |-> <<2350, 2375, 2306>>, weight |-> 1],
           [word |-> <<2325, 2366>>, weight |-> 1],
           [word |-> <<2325, 2368>>, weight |-> 1],
           [word |-> <<2325, 2375>>, weight |-> 1] >>],
      [lang |-> "mr", indicators |-> <<
           [word |-> <<2310, 2361, 2375>>, weight |-> 3],
           [word |-> <<2310, 2361, 2379, 2340>>, weight |-> 3],
           [word |-> <<2325, 2366, 2351>>, weight |-> 2],
           [word |-> <<2361, 2366>>, weight |-> 2],
           [word |-> <<2340, 2368>>, weight |-> 2],
           [word |-> <<2350, 2368>>, weight |-> 2],
           [word |-> <<2340, 2370>>, weight |-> 2],
           [word |-> <<2310, 2350, 2381, 2361, 2368>>, weight |-> 2],
           [word |-> <<2340, 2369, 2350, 2381, 2361, 2368>>, weight |-> 2],
           [word |-> <<2354, 2366>>, weight |-> 1],
           [word |-> <<2344, 2375>>, weight |-> 1],
           [word |-> <<2330>>, weight |-> 1],
           [word |-> <<2346, 2339>>, weight |-> 1],
           [word |-> <<2310, 2339, 2367>>, weight |-> 1] >>],
      [lang |-> "gu", indicators |-> <<
           [word |-> <<2715, 2759>>, weight |-> 3],
           [word |-> <<2725, 2750, 2735>>, weight |-> 3],
           [word |-> <<2742, 2753, 2690>>, weight |-> 2],
           [word |-> <<2694>>, weight |-> 2],
           [word |-> <<2724, 2759>>, weight |-> 2],
           [word |-> <<2745, 2753, 2690>>, weight |-> 2],
           [word |-> <<2724, 2734, 2759>>, weight |-> 2],
           [word |-> <<2728, 2759>>, weight |-> 1],
           [word |-> <<2725, 2752>>, weight |-> 1],
           [word |-> <<2693, 2728, 2759>>, weight |-> 1],
           [word |-> <<2730, 2723>>, weight |-> 1] >>],
      [lang |-> "sa", indicators |-> <<
           [word |-> <<2309, 2360, 2381, 2340, 2367>>, weight |-> 3],
           [word |-> <<2349, 2357, 2340, 2367>>, weight |-> 3],
           [word |-> <<2325, 2367, 2350, 2381>>, weight |-> 2],
           [word |-> <<2309, 2361, 2350, 2381>>, weight |-> 2],
           [word |-> <<2340, 2381, 2357, 2350, 2381>>, weight |-> 2],
           [word |-> <<2360, 2307>>, weight |-> 2],
           [word |-> <<2340, 2340, 2381>>, weight |-> 2],
           [word |-> <<2330>>, weight |-> 1],
           [word |-> <<2357, 2366>>, weight |-> 1] >>],
      [lang |-> "ne", indicators |-> <<
           [word |-> <<2331>>, weight |-> 3],
           [word |-> <<2361, 2379>>, weight |-> 2],
           [word |-> <<2325, 2375>>, weight |-> 2],
           [word |-> <<2351, 2379>>, weight |-> 2],
           [word |-> <<2340, 2381, 2351, 2379>>, weight |-> 2],
           [word |-> <<2350>>, weight |-> 2],
           [word |-> <<2340, 2367, 2350, 2368>>, weight |-> 2],
           [word |-> <<2361, 2366, 2350, 2368>>, weight |-> 2],
           [word |-> <<2354, 2366, 2312>>, weight |-> 1],
           [word |-> <<2348, 2366, 2335>>, weight |-> 1],
           [word |-> <<2352>>, weight |-> 1] >>]
    >>

LangOrder == [i \in 1..Len(devanagari_indicators) |-> devanagari_indicators[i].lang]

\* `word in text` on Python str: word occurs as a contiguous run of code points
IsSubstring(word, t) ==
    \E i \in 0..(Len(t) - Len(word)) : SubSeq(t, i + 1, i + Len(word)) = word

\* number of (possibly overlapping) occurrences of word in t
Occurrences(word, t) ==
    Cardinality({i \in 0..(Len(t) - Len(word)) : SubSeq(t, i + 1, i + Len(word)) = word})

\* what an indicator adds to the score had every occurrence been counted
WeightPerOccurrence(ind, t) == ind.weight * Occurrences(ind.word, t)

\* lines 64-66: if word in text: score += weight
IndicatorWeight(ind, t) == IF IsSubstring(ind.word, t) THEN ind.weight ELSE 0

RECURSIVE ScoreOf(_, _)
ScoreOf(indicators, t) ==
    IF indicators = <<>> THEN 0
    ELSE IndicatorWeight(Head(indicators), t) + ScoreOf(Tail(indicators), t)

\* lines 60-68: lang_scores, the languages with score > 0 in table order
RECURSIVE BuildLangScores(_, _)
BuildLangScores(table, t) ==
    IF table = <<>> THEN <<>>
    ELSE LET score == ScoreOf(Head(table).indicators, t)
             rest  == BuildLangScores(Tail(table), t)
         IN  IF score > 0 THEN <<[lang |-> Head(table).lang, score |-> score]>> \o rest
             ELSE rest

\* a later item taking over on an equal key
ReplacesBestOnTie(item, best) == item.score >= best.score

\* max(): a later item replaces the best so far only with a strictly greater key
ReplacesBest(item, best) == item.score > best.score

\* line 72: max(lang_scores.items(), key=lambda x: x[1])
RECURSIVE MaxItem(_, _)
MaxItem(items, best) ==
    IF items = <<>> THEN best
    ELSE MaxItem(Tail(items), IF ReplacesBest(Head(items), best) THEN Head(items) ELSE best)

\* lines 58-76
detect_devanagari_language(t) ==
    LET scores == BuildLangScores(devanagari_indicators, t)
    IN  IF scores # <<>>
        THEN LET best == MaxItem(Tail(scores), Head(scores))
             IN  [lang |-> best.lang, confidence |-> best.score]
        ELSE [lang |-> "hi", confidence |-> 0]

\* code points used by the texts that are checked
Alphabet == {2361, 2376, 2379, 2325, 2375, 2330, 32}

HaiHai      == <<2361, 2376, 2361, 2376>>
HaiSpaceHai == <<2361, 2376, 32, 2361, 2376>>

Texts == SeqsUpTo(Alphabet, MaxTextLen) \cup {HaiHai, HaiSpaceHai}

NotDetected == [lang |-> "none", confidence |-> -1]

InitLang ==
    /\ text \in Texts
    /\ lang_scores = <<>>
    /\ detected = NotDetected

IdleLang ==
    /\ text = <<>>
    /\ lang_scores = <<>>
    /\ detected = NotDetected

Detect ==
    /\ pc = "lang"
    /\ pc' = "lang_done"
    /\ lang_scores' = BuildLangScores(devanagari_indicators, text)
    /\ detected' = detect_devanagari_language(text)
    /\ UNCHANGED <<text, diskVars, batchVars, analyzeVars, stages, chunk_count, result>>

(***************************************************************************)
(*                              final.py                                   *)
(*                                                                         *)
(* A directory is [exists, files]; a file is [name, data, stale].  name is *)
(* the number in chunk_NNNN.json / batch_NN.json (zero padded, so the      *)
(* sorted listing is ascending in it), data the JSON content, stale a      *)
(* history mark: the file was on disk before the current call started.     *)
(* Only *.json files are represented.                                      *)
(***************************************************************************)
MAX_BATCH_CHARS == 8000 * 4

NoDir == [exists |-> FALSE, files |-> {}]

\* line 43-45: len(chunk_data.get('page_content', ''))
estimate_char_length(chunk_data) == chunk_data.len

\* lines 115-116 / 247-248: os.listdir filtered to *.json, then sort()
RECURSIVE SortedNames(_)
SortedNames(names) ==
    IF names = {} THEN <<>>
    ELSE <<Min(names)>> \o SortedNames(names \ {Min(names)})

FileNamed(dir, n) == CHOOSE f \in dir.files : f.name = n

\* lines 93-96 / 123-126: remove every *.json of the directory
CleanJsonFiles(files) == {}

\* open(name, 'w') + json.dump: the file is created or replaced
WriteFile(files, n, data) ==
    {f \in files : f.name # n} \cup {[name |-> n, data |-> data, stale |-> FALSE]}

\* the budget tested on the batch alone, before the chunk is added
FlushBeforeAdding(size, chunk_size, budget, content) ==
    size > budget /\ content # <<>>

\* the current batch taken as empty when its size is 0
FlushUnlessSizeZero(size, chunk_size, budget, content) ==
    size + chunk_size > budget /\ size > 0

\* the budget tested with >= in place of >
FlushAtBudget(size, chunk_size, budget, content) ==
    size + chunk_size >= budget /\ content # <<>>

\* line 151: the flush test
FlushNeeded(size, chunk_size, budget, content) ==
    size + chunk_size > budget /\ content # <<>>

\* the chunk that triggered the flush is forgotten
RestartEmpty(chunk_data) == <<>>

\* line 153: current_batch_content = [chunk_data]
RestartWith(chunk_data) == <<chunk_data>>

\* lines 114-130: listing, makedirs, clean old batches, locals
CB_Start ==
    /\ pc = "batching"
    /\ stages' = Append(stages, "create_batches")
    /\ readChunks' = <<>>
    /\ IF ~chunksDir.exists
       THEN /\ pc' = "cb_ret"                     \* FileNotFoundError: return 0
            /\ batch_count' = 1
            /\ UNCHANGED <<batchesDir, chunk_files, fileIdx,
                           current_batch_content, current_batch_size_chars>>
       ELSE /\ pc' = "cb_loop"
            /\ chunk_files' = SortedNames({f.name : f \in chunksDir.files})
            /\ fileIdx' = 1
            /\ batchesDir' = [exists |-> TRUE, files |-> CleanJsonFiles(batchesDir.files)]
            /\ current_batch_content' = <<>>
            /\ current_batch_size_chars' = 0
            /\ batch_count' = 1
    /\ UNCHANGED <<chunksDir, reportFile, max_batch_chars, analyzeVars, chunk_count, result, langVars>>

\* lines 141-158: one iteration of the for loop; the read may raise
CB_Step ==
    /\ pc = "cb_loop"
    /\ fileIdx <= Len(chunk_files)
    /\ fileIdx' = fileIdx + 1
    /\ \E readOk \in BOOLEAN :
         IF ~readOk
         THEN UNCHANGED <<batchesDir, current_batch_content, current_batch_size_chars,
                          batch_count, readChunks>>              \* except: continue
         ELSE LET chunk_data == FileNamed(chunksDir, chunk_files[fileIdx]).data
                  chunk_size_chars == estimate_char_length(chunk_data)
              IN  /\ readChunks' = Append(readChunks, chunk_data)
                  /\ IF FlushNeeded(current_batch_size_chars, chunk_size_chars,
                                    max_batch_chars, current_batch_content)
                     THEN /\ batchesDir' = [batchesDir EXCEPT !.files =
                                 WriteFile(@, batch_count, current_batch_content)]
                          /\ batch_count' = batch_count + 1
                          /\ current_batch_content' = RestartWith(chunk_data)
                          /\ current_batch_size_chars' = chunk_size_chars
                     ELSE /\ current_batch_content' = Append(current_batch_content, chunk_data)
                          /\ current_batch_size_chars' = current_batch_size_chars + chunk_size_chars
                          /\ UNCHANGED <<batchesDir, batch_count>>
    /\ UNCHANGED <<pc, chunksDir, reportFile, max_batch_chars, chunk_files,
                   analyzeVars, stages, chunk_count, result, langVars>>

\* lines 160-163: the last flush and the return
CB_Finish ==
    /\ pc = "cb_loop"
    /\ fileIdx > Len(chunk_files)
    /\ pc' = "cb_ret"
    /\ IF current_batch_content # <<>>
       THEN /\ batchesDir' = [batchesDir EXCEPT !.files =
                   WriteFile(@, batch_count, current_batch_content)]
            /\ batch_count' = batch_count + 1
            /\ current_batch_content' = <<>>
            /\ current_batch_size_chars' = 0
       ELSE UNCHANGED <<batchesDir, batch_count, current_batch_content,
                        current_batch_size_chars>>
    /\ UNCHANGED <<chunksDir, reportFile, max_batch_chars, chunk_files, fileIdx,
                   readChunks, analyzeVars, stages, chunk_count, result, langVars>>

\* line 163: return batch_count - 1
BatchesCreated == batch_count - 1

(***************************************************************************)
(* SpecBatch: create_batches called on any chunk directory, any budget.    *)
(***************************************************************************)
ChunkFile(n, l) == [name |-> n, data |-> [id |-> n, len |-> l], stale |-> FALSE]

ChunkDirs ==
    {NoDir} \cup
    {[exists |-> TRUE, files |-> {ChunkFile(n, l[n]) : n \in S}] :
        S \in SUBSET (1..MaxFiles), l \in [1..MaxFiles -> 0..MaxChunkLen]}

\* a batch file left by an earlier call
OldBatch == [name |-> MaxFiles + 1, data |-> <<[id |-> 0, len |-> 0]>>, stale |-> TRUE]

IdleAnalyze ==
    /\ batch_files = <<>>
    /\ batchIdx = 0
    /\ all_analysis_results = <<>>
    /\ calls = <<>>

IdleBatch ==
    /\ chunk_files = <<>>
    /\ fileIdx = 0
    /\ current_batch_content = <<>>
    /\ current_batch_size_chars = 0
    /\ batch_count = 1
    /\ readChunks = <<>>

NoResult == [kind |-> "none", claims |-> <<>>]

InitBatch ==
    /\ pc = "batching"
    /\ chunksDir \in ChunkDirs
    /\ batchesDir \in {NoDir, [exists |-> TRUE, files |-> {OldBatch}]}
    /\ reportFile = <<>>
    /\ max_batch_chars \in 0..MaxBudget
    /\ IdleBatch
    /\ IdleAnalyze
    /\ stages = <<>>
    /\ chunk_count = 0
    /\ result = NoResult
    /\ IdleLang

NextBatch == CB_Start \/ CB_Step \/ CB_Finish

SpecBatch == InitBatch /\ [][NextBatch]_vars

(***************************************************************************)
(* Spec: run_full_analysis_pipeline, run after run, on the same disk.      *)
(***************************************************************************)
\* what the splitter can return for one post: page_content lengths
PostLens == {20000, 40000}

\* the input file: absent, not JSON, or posts that the splitter turns into chunks
Inputs ==
    {[kind |-> "missing", chunks |-> <<>>], [kind |-> "malformed", chunks |-> <<>>]}
    \cup {[kind |-> "posts", chunks |-> c] : c \in SeqsUpTo(PostLens, MaxPipeChunks)}

\* lines 48-109: process_and_chunk_reddit_data; dir is chunks/ before the call
process_and_chunk_reddit_data(inp, dir) ==
    IF inp.kind = "missing"                       \* lines 50-52: return 0
    THEN [raised |-> FALSE, count |-> 0, dir |-> dir]
    ELSE IF inp.kind = "malformed"                \* line 55: json.load raises
    THEN [raised |-> TRUE, count |-> 0, dir |-> dir]
    ELSE [raised |-> FALSE,
          count  |-> Len(inp.chunks),
          dir    |-> [exists |-> TRUE,
                      files  |-> CleanJsonFiles(dir.files) \cup
                                 {ChunkFile(i, inp.chunks[i]) : i \in 1..Len(inp.chunks)}]]

\* the history mark of the files a new run finds on disk
MarkStale(files) == {[f EXCEPT !.stale = TRUE] : f \in files}

Raised    == [kind |-> "raised", claims |-> <<>>]
Returned(claims) == [kind |-> "list", claims |-> claims]

\* the orchestrator going on whatever the count
NeverShortCircuit(count) == FALSE

\* lines 301 / 308: if count == 0: return []
ShortCircuit(count) == count = 0

\* lines 295-303: the run starts, the chunker runs, the orchestrator tests its count
PipelineStart ==
    /\ pc \in {"idle", "done", "raised"}
    /\ \E inp \in Inputs :
         LET old == [exists |-> chunksDir.exists, files |-> MarkStale(chunksDir.files)]
             out == process_and_chunk_reddit_data(inp, old)
         IN  /\ chunksDir' = out.dir
             /\ chunk_count' = out.count
             /\ IF out.raised
                THEN pc' = "raised" /\ result' = Raised
                ELSE IF ShortCircuit(out.count)
                THEN pc' = "done" /\ result' = Returned(<<>>)
                ELSE pc' = "batching" /\ result' = NoResult
    /\ batchesDir' = [batchesDir EXCEPT !.files = MarkStale(@)]
    /\ reportFile' = [i \in 1..Len(reportFile) |-> [reportFile[i] EXCEPT !.stale = TRUE]]
    /\ stages' = <<"chunker">>
    /\ chunk_files' = <<>>
    /\ fileIdx' = 0
    /\ current_batch_content' = <<>>
    /\ current_batch_size_chars' = 0
    /\ batch_count' = 1
    /\ readChunks' = <<>>
    /\ batch_files' = <<>>
    /\ batchIdx' = 0
    /\ all_analysis_results' = <<>>
    /\ calls' = <<>>
    /\ UNCHANGED <<max_batch_chars, langVars>>

\* lines 307-310: the orchestrator tests the batch count
AfterBatching ==
    /\ pc = "cb_ret"
    /\ IF ShortCircuit(BatchesCreated)
       THEN pc' = "done" /\ result' = Returned(<<>>)
       ELSE pc' = "analysis" /\ UNCHANGED result
    /\ UNCHANGED <<diskVars, batchVars, analyzeVars, stages, chunk_count, langVars>>

\* what one call of the model gives: the runtime is missing, the model does not
\* load, inference raises, the answer is not JSON, or the answer parses: to a
\* list of n claim objects, to a list holding something that is no object, or to
\* a JSON value that is no list
ModelBehaviours ==
    {[kind |-> k, n |-> 0] :
        k \in {"unavailable", "load_failed", "inference_error", "not_json",
               "json_nonlist", "json_badlist"}}
    \cup {[kind |-> "json_list", n |-> n] : n \in 0..MaxClaims}

None == [kind |-> "None", n |-> 0]

\* lines 166-239: call_local_analysis, as the value it returns
call_local_analysis(behaviour) ==
    IF behaviour.kind \in {"unavailable", "load_failed", "inference_error", "not_json"}
    THEN None
    ELSE behaviour

\* line 274: analysis_result_list and isinstance(analysis_result_list, list)
IsNonEmptyList(value) ==
    \/ value.kind = "json_list" /\ value.n > 0
    \/ value.kind = "json_badlist"

\* lines 276-278: batch_id and chunk_count set on each claim object
Stamp(value, batch_id, batch_data) ==
    [k \in 1..value.n |->
        [claim |-> k, batch_id |-> batch_id, chunk_count |-> Len(batch_data)]]

\* the results so far replaced by the new batch's
ReplaceResults(all, new) == new

\* line 280: all_analysis_results.extend(analysis_result_list)
ExtendResults(all, new) == all \o new

\* lines 244-255: listing, makedirs, the empty result list
AB_Start ==
    /\ pc = "analysis"
    /\ stages' = Append(stages, "analyze_batches")
    /\ IF ~batchesDir.exists
       THEN /\ pc' = "done"                        \* FileNotFoundError: return []
            /\ result' = Returned(<<>>)
            /\ UNCHANGED analyzeVars
       ELSE /\ pc' = "ab_loop"
            /\ batch_files' = SortedNames({f.name : f \in batchesDir.files})
            /\ batchIdx' = 1
            /\ all_analysis_results' = <<>>
            /\ calls' = <<>>
            /\ UNCHANGED result
    /\ UNCHANGED <<diskVars, batchVars, chunk_count, langVars>>

\* lines 257-280: one iteration of the for loop; the read may raise, and the
\* model is called once with whatever it does this time
AB_Step ==
    /\ pc = "ab_loop"
    /\ batchIdx <= Len(batch_files)
    /\ batchIdx' = batchIdx + 1
    /\ LET batch_id == batch_files[batchIdx]
       IN \/ /\ calls' = Append(calls, [batch |-> batch_id, invoked |-> FALSE, value |-> None])
             /\ UNCHANGED <<pc, all_analysis_results, result>>      \* except: continue
          \/ \E behaviour \in ModelBehaviours :
               LET batch_data == FileNamed(batchesDir, batch_id).data
                   value == call_local_analysis(behaviour)
               IN  /\ calls' = Append(calls, [batch |-> batch_id, invoked |-> TRUE,
                                              value |-> value])
                   /\ IF ~IsNonEmptyList(value)
                      THEN UNCHANGED <<pc, all_analysis_results, result>>
                      ELSE IF value.kind = "json_badlist"
                      THEN /\ pc' = "raised"          \* line 277: TypeError
                           /\ result' = Raised
                           /\ UNCHANGED all_analysis_results
                      ELSE /\ all_analysis_results' =
                                 ExtendResults(all_analysis_results,
                                               Stamp(value, batch_id, batch_data))
                           /\ UNCHANGED <<pc, result>>
    /\ UNCHANGED <<diskVars, batchVars, batch_files, stages, chunk_count, langVars>>

\* lines 282-288 and 314-316: the combined report, the return
AB_Finish ==
    /\ pc = "ab_loop"
    /\ batchIdx > Len(batch_files)
    /\ pc' = "done"
    /\ reportFile' = IF all_analysis_results # <<>>
                     THEN <<[stale |-> FALSE, claims |-> all_analysis_results]>>
                     ELSE reportFile
    /\ result' = Returned(all_analysis_results)
    /\ UNCHANGED <<chunksDir, batchesDir, batchVars, analyzeVars, stages,
                   chunk_count, langVars>>

Init ==
    /\ pc = "idle"
    /\ chunksDir = NoDir
    /\ batchesDir = NoDir
    /\ reportFile = <<>>
    /\ max_batch_chars = MAX_BATCH_CHARS
    /\ IdleBatch
    /\ IdleAnalyze
    /\ stages = <<>>
    /\ chunk_count = 0
    /\ result = NoResult
    /\ IdleLang

Next ==
    \/ PipelineStart
    \/ CB_Start
    \/ CB_Step
    \/ CB_Finish
    \/ AfterBatching
    \/ AB_Start
    \/ AB_Step
    \/ AB_Finish

Spec == Init /\ [][Next]_vars

(***************************************************************************)
(* SpecLang: detect_devanagari_language called on any text.                *)
(***************************************************************************)
InitLangSpec ==
    /\ pc = "lang"
    /\ chunksDir = NoDir
    /\ batchesDir = NoDir
    /\ reportFile = <<>>
    /\ max_batch_chars = MAX_BATCH_CHARS
    /\ IdleBatch
    /\ IdleAnalyze
    /\ stages = <<>>
    /\ chunk_count = 0
    /\ result = NoResult
    /\ InitLang

NextLang == Detect

SpecLang == InitLangSpec /\ [][NextLang]_vars

(***************************************************************************)
(*                    Properties of create_batches                         *)
(***************************************************************************)
\* the contents of the batch files on disk, in batch-number order
BatchesInOrder ==
    LET names == SortedNames({f.name : f \in batchesDir.files})
    IN  [i \in 1..Len(names) |-> FileNamed(batchesDir, names[i]).data]

\* the batch files written by the call (not there before it)
WrittenBatches == {f \in batchesDir.files : ~f.stale}

Oversized(chunk_data) == chunk_data.len > max_batch_chars

\* C1: when create_batches has returned, the batch files are numbered
\* 1..(return value) and their contents, concatenated in batch-number order,
\* are exactly the chunks that could be read, in ascending file-name order:
\* no chunk is in two batches and no readable chunk is missing.
C1_Partition ==
    (pc = "cb_ret" /\ chunksDir.exists) =>
        /\ Flatten(BatchesInOrder) = readChunks
        /\ \A i, j \in 1..Len(readChunks) : i < j => readChunks[i].id < readChunks[j].id
        /\ {f.name : f \in batchesDir.files} = 1..BatchesCreated

\* three files, one unreadable, the two others in two batches
C1_Witness ==
    /\ pc = "cb_ret"
    /\ Len(chunk_files) = 3
    /\ Len(readChunks) = 2
    /\ BatchesCreated = 2
    /\ Flatten(BatchesInOrder) = readChunks

\* C2: every batch written by create_batches has a summed length within the
\* budget, unless it is exactly one chunk that is itself over the budget.
C2_WithinBudget ==
    \A f \in WrittenBatches :
        \/ SumLen(f.data) <= max_batch_chars
        \/ (Len(f.data) = 1 /\ Oversized(f.data[1]))

\* a batch of two chunks that fills the budget exactly, beside an oversized singleton
C2_Witness ==
    /\ pc = "cb_ret"
    /\ \E f \in WrittenBatches :
          Len(f.data) = 2 /\ SumLen(f.data) = max_batch_chars /\ f.data[1].len > 0
    /\ \E f \in WrittenBatches : Len(f.data) = 1 /\ Oversized(f.data[1])

\* C3: a chunk longer than the budget is alone in its batch, and once the
\* call has returned every such readable chunk has its own batch.
C3_OversizedAlone ==
    /\ \A f \in WrittenBatches :
          \A i \in 1..Len(f.data) : Oversized(f.data[i]) => Len(f.data) = 1
    /\ pc = "cb_ret" =>
          \A i \in 1..Len(readChunks) :
              Oversized(readChunks[i]) =>
                  \E f \in WrittenBatches : f.data = <<readChunks[i]>>

\* an oversized chunk between two zero-length chunks, each in its own batch
C3_Witness ==
    /\ pc = "cb_ret"
    /\ Len(readChunks) = 3
    /\ readChunks[1].len = 0 /\ Oversized(readChunks[2]) /\ readChunks[3].len = 0
    /\ BatchesCreated = 3

\* C9: the written batches are those of the greedy rule: inside a batch every
\* chunk after the first fitted (the chunks before it plus it are within the
\* budget), and for two consecutive batches the earlier batch plus the first
\* chunk of the later one exceeds the budget.
C9_Greedy ==
    /\ \A f \in WrittenBatches :
          /\ f.data # <<>>
          /\ \A j \in 2..Len(f.data) : SumLen(SubSeq(f.data, 1, j)) <= max_batch_chars
    /\ \A f, g \in WrittenBatches :
          g.name = f.name + 1 => SumLen(f.data) + g.data[1].len > max_batch_chars

\* a batch of two chunks within the budget, closed by a chunk that did not fit
C9_Witness ==
    /\ pc = "cb_ret"
    /\ \E f, g \in WrittenBatches :
          /\ g.name = f.name + 1
          /\ Len(f.data) = 2
          /\ SumLen(f.data) = max_batch_chars
          /\ ~Oversized(g.data[1])
          /\ g.data[1].len > 0

(***************************************************************************)
(*               Properties of run_full_analysis_pipeline                  *)
(***************************************************************************)
Finished == pc \in {"done", "raised"}

\* C4: no exception reaches the caller of run_full_analysis_pipeline: a
\* finished run has returned a list.
C4_NoException == Finished => result.kind = "list"

AllStages == <<"chunker", "create_batches", "analyze_batches">>

\* C5: the stages run in the order chunker, create_batches, analyze_batches;
\* a run whose chunker gave zero chunks ends with the empty list having called
\* neither create_batches nor analyze_batches (nor the model), and a run whose
\* create_batches gave zero batches ends with the empty list having called
\* neither analyze_batches nor the model.
C5_Sequence ==
    /\ \E n \in 0..3 : stages = SubSeq(AllStages, 1, n)
    /\ (pc = "done" /\ chunk_count = 0) =>
          stages = <<"chunker">> /\ result = Returned(<<>>) /\ calls = <<>>
    /\ (pc = "done" /\ chunk_count > 0 /\ BatchesCreated = 0) =>
          /\ stages = <<"chunker", "create_batches">>
          /\ result = Returned(<<>>)
          /\ calls = <<>>
    /\ (pc = "done" /\ chunk_count > 0 /\ BatchesCreated > 0) => stages = AllStages
    /\ calls # <<>> => stages = AllStages

\* a run that wrote chunks of which none could be read back: no batch, no analysis
C5_Witness ==
    /\ pc = "done"
    /\ chunk_count = 2
    /\ BatchesCreated = 0
    /\ stages = <<"chunker", "create_batches">>
    /\ result = Returned(<<>>)

ReportIsStale == reportFile # <<>> /\ reportFile[1].stale

\* C6: when a run has finished, the chunk files, the batch files and the
\* combined report on disk were all written by that run.
C6_OnlyThisRun ==
    pc = "done" =>
        /\ \A f \in chunksDir.files \cup batchesDir.files : ~f.stale
        /\ ~ReportIsStale

\* the claims of one log entry, as analyze_batches should hand them on
ClaimsOf(entry) ==
    IF entry.invoked /\ entry.value.kind = "json_list"
    THEN [k \in 1..entry.value.n |->
             [claim |-> k, batch_id |-> entry.batch,
              chunk_count |-> Len(FileNamed(batchesDir, entry.batch).data)]]
    ELSE <<>>

\* C7: the log of analyze_batches holds each batch file at most once, in file
\* order, so the model is called at most once per batch; the results gathered
\* so far are the concatenation, in that order, of the claims of the batches
\* whose call gave a list; and when analyze_batches returns, every batch file
\* has been tried and the returned list is that concatenation.
C7_NoRetry ==
    /\ \A i \in 1..Len(calls) : calls[i].batch = batch_files[i]
    /\ \A i, j \in 1..Len(calls) : i < j => calls[i].batch < calls[j].batch
    /\ pc = "ab_loop" =>
          all_analysis_results = Flatten([i \in 1..Len(calls) |-> ClaimsOf(calls[i])])
    /\ (pc = "done" /\ stages = AllStages) =>
          /\ Len(calls) = Len(batch_files)
          /\ result = Returned(Flatten([i \in 1..Len(calls) |-> ClaimsOf(calls[i])]))

\* two batches: the call for the first fails, the second still gives its claim
C7_Witness ==
    /\ pc = "done"
    /\ Len(calls) = 2
    /\ calls[1].invoked /\ calls[1].value = None
    /\ calls[2].invoked /\ calls[2].value.kind = "json_list"
    /\ Len(result.claims) = 1
    /\ result.claims[1].batch_id = 2

(***************************************************************************)
(*              Properties of detect_devanagari_language                   *)
(***************************************************************************)
\* the score lang_scores holds for a language (0 when it has no entry)
ScoreIn(lang) ==
    IF \E i \in 1..Len(lang_scores) : lang_scores[i].lang = lang
    THEN (CHOOSE e \in {lang_scores[i] : i \in 1..Len(lang_scores)} : e.lang = lang).score
    ELSE 0

\* the sum of the weights of the keywords of language number i that occur in t
WeightSum(i, t) ==
    LET inds == devanagari_indicators[i].indicators
        S[k \in 0..Len(inds)] ==
            IF k = 0 THEN 0
            ELSE S[k - 1] + (IF IsSubstring(inds[k].word, t) THEN inds[k].weight ELSE 0)
    IN  S[Len(inds)]

Langs == 1..Len(devanagari_indicators)

OnlyHaiTwice == text \in {HaiHai, HaiSpaceHai}

\* C8 as stated: for text holding only "hai" twice Hindi scores 6, no other
\* language scores above 0 and Hindi is returned.
C8_Original ==
    (pc = "lang_done" /\ OnlyHaiTwice) =>
        /\ ScoreIn("hi") = 6
        /\ \A i \in Langs : LangOrder[i] # "hi" => ScoreIn(LangOrder[i]) = 0
        /\ detected.lang = "hi"

\* C8 amended: for text holding only "hai" twice Hindi scores 3 (a keyword
\* counts once however often it occurs), no other language scores above 0 and
\* Hindi is returned with confidence 3.
C8_HaiTwice ==
    (pc = "lang_done" /\ OnlyHaiTwice) =>
        /\ ScoreIn("hi") = 3
        /\ \A i \in Langs : LangOrder[i] # "hi" => ScoreIn(LangOrder[i]) = 0
        /\ detected = [lang |-> "hi", confidence |-> 3]

C8_Witness == pc = "lang_done" /\ text = HaiSpaceHai /\ detected.lang = "hi"

NoKeyword == \A i \in Langs : WeightSum(i, text) = 0

ScoresAreWeightSums == \A i \in Langs : ScoreIn(LangOrder[i]) = WeightSum(i, text)

\* C10 as stated: each language scores the sum of the weights of its keywords
\* occurring in the text; the returned language scores strictly higher than
\* every language later in table order and not lower than any earlier one, and
\* its score is returned; with no keyword Hindi is returned with confidence 0.
C10_Original ==
    pc = "lang_done" =>
        /\ ScoresAreWeightSums
        /\ IF NoKeyword
           THEN detected = [lang |-> "hi", confidence |-> 0]
           ELSE \E i \in Langs :
                  /\ detected = [lang |-> LangOrder[i], confidence |-> WeightSum(i, text)]
                  /\ \A j \in Langs : j > i => WeightSum(i, text) > WeightSum(j, text)
                  /\ \A j \in Langs : j < i => WeightSum(i, text) >= WeightSum(j, text)

\* C10 amended: as stated, except that on equal scores the language earlier in
\* table order wins: the returned language scores strictly higher than every
\* language earlier in table order and not lower than any later one.
C10_FirstMax ==
    pc = "lang_done" =>
        /\ ScoresAreWeightSums
        /\ IF NoKeyword
           THEN detected = [lang |-> "hi", confidence |-> 0]
           ELSE \E i \in Langs :
                  /\ detected = [lang |-> LangOrder[i], confidence |-> WeightSum(i, text)]
                  /\ \A j \in Langs : j < i => WeightSum(i, text) > WeightSum(j, text)
                  /\ \A j \in Langs : j > i => WeightSum(i, text) >= WeightSum(j, text)

\* "ho": Hindi and Nepali both score 2 and Hindi is returned
C10_Witness ==
    /\ pc = "lang_done"
    /\ text = <<2361, 2379>>
    /\ ScoreIn("hi") = 2 /\ ScoreIn("ne") = 2
    /\ detected = [lang |-> "hi", confidence |-> 2]

====
